---- MODULE Spec2Model ----
(***************************************************************************)
(* A model of biased_memory_toolbox.py (version 1.2.3).                    *)
(*                                                                         *)
(* Numbers.  Every angle, precision and rate of the program is a float.    *)
(* The model keeps them as integers in HUNDREDTHS: 16 degrees is 1600,     *)
(* the prototype -1.5 is -150, a guess rate of .1 is 10, a rate of .25 is  *)
(* 25, a precision of 500 is 50000.  Deg(n) and Whole(n) write a whole     *)
(* number, Tenths(n) n tenths and Hundredths(n) n hundredths.              *)
(*                                                                         *)
(* State.  The module is a library of functions; the state is the call     *)
(* the caller is making: which function (op), with which arguments (inp),  *)
(* and what it returned or raised (out).  Between two calls the caller is  *)
(* "idle"; every call action is the whole function, from entry to return.  *)
(* opt is the call of scipy's optimize.minimize made by a fit: the         *)
(* signature of the density its objective binds the vector to, the start   *)
(* vector, the bounds and the vector it found.                             *)
(* module is the namespace of the imported module: the values its          *)
(* STARTING_ and BOUNDS_ names are bound to, which the fits look up when   *)
(* they are called.  fits counts the calls of fit_mixture_model so far.    *)
(***************************************************************************)
EXTENDS Integers, Sequences, FiniteSets, TLC

VARIABLES op, inp, out, opt, module, fits

vars == <<op, inp, out, opt, module, fits>>

(* ------------------------------ bounds --------------------------------- *)

\* angles handed to category() and _distance() are the tenths of a degree
\* from -MaxAngle to MaxAngle tenths (550 degrees on either side of 0)
MaxAngle == 5500

\* longest memoranda / responses array handed to response_bias()
MaxTrials == 2

\* most non-target arrays handed to fit_mixture_model() and _swap_pdf()
MaxNonTargets == 2

\* most observations handed to aic()
MaxObs == 3

\* longest memoranda / responses array handed to test_chance_performance()
MaxShuffled == 3

\* most calls of fit_mixture_model in one run of the caller
MaxCalls == 2

(* ------------------------------ numbers -------------------------------- *)

Whole(n) == 100 * n

Deg(n) == 100 * n

Tenths(n) == 10 * n

Hundredths(n) == n

Abs(n) == IF n < 0 THEN -n ELSE n

(* --------------------------- category tables --------------------------- *)

\* An ordered mapping name -> (minval, maxval, proto), in insertion order.
Cat(n, lo, hi, p) == [name |-> n, minval |-> lo, maxval |-> hi, proto |-> p]

\* DEFAULT_CATEGORIES with pink ending one degree early
DefaultCategoriesShortPink ==
    << Cat("red",    -Deg(19), Deg(16),  -Tenths(15)),
       Cat("orange", Deg(16),  Deg(47),  Deg(31)),
       Cat("yellow", Deg(47),  Deg(75),  Deg(61)),
       Cat("green",  Deg(75),  Deg(167), Deg(121)),
       Cat("blue",   Deg(167), Deg(261), Deg(214)),
       Cat("purple", Deg(261), Deg(295), Deg(278)),
       Cat("pink",   Deg(295), Deg(340), Deg(318)) >>

DEFAULT_CATEGORIES ==
    << Cat("red",    -Deg(19), Deg(16),  -Tenths(15)),
       Cat("orange", Deg(16),  Deg(47),  Deg(31)),
       Cat("yellow", Deg(47),  Deg(75),  Deg(61)),
       Cat("green",  Deg(75),  Deg(167), Deg(121)),
       Cat("blue",   Deg(167), Deg(261), Deg(214)),
       Cat("purple", Deg(261), Deg(295), Deg(278)),
       Cat("pink",   Deg(295), Deg(341), Deg(318)) >>

\* Tables a caller may pass instead (the data structure enforces nothing):
\* one whose first interval covers 0 with prototype 10, one whose intervals
\* overlap, one with gaps.
ExampleCategories ==
    << Cat("near", -Deg(100), Deg(100), Deg(10)),
       Cat("far",  Deg(100),  Deg(260), Deg(180)) >>

OverlapCategories ==
    << Cat("first",  Deg(0),   Deg(200), Deg(100)),
       Cat("second", Deg(100), Deg(380), Deg(250)) >>

GapCategories ==
    << Cat("low",  Deg(0),   Deg(90),  Deg(45)),
       Cat("high", Deg(180), Deg(270), Deg(225)) >>

Tables == {DEFAULT_CATEGORIES, ExampleCategories, OverlapCategories,
           GapCategories}

(* ------------------------------ results -------------------------------- *)

Ok(v) == [kind |-> "ok", val |-> v]

Raise(e) == [kind |-> e, val |-> <<>>]

(* ------------------------------ category ------------------------------- *)

\* InCategory with intervals closed at maxval
InCategoryClosed(x, c) ==
    \/ (c.minval <= x /\ x <= c.maxval)
    \/ (c.minval <= x - Deg(360) /\ x - Deg(360) <= c.maxval)
    \/ (c.minval <= x + Deg(360) /\ x + Deg(360) <= c.maxval)

\* one iteration of the loop of category(): the three interval tests
InCategory(x, c) ==
    \/ (c.minval <= x /\ x < c.maxval)
    \/ (c.minval <= x - Deg(360) /\ x - Deg(360) < c.maxval)
    \/ (c.minval <= x + Deg(360) /\ x + Deg(360) < c.maxval)

RECURSIVE categoryFrom(_, _, _)
categoryFrom(x, categories, i) ==
    IF i > Len(categories) THEN Raise("ValueError")
    ELSE IF InCategory(x, categories[i]) THEN Ok(categories[i].name)
    ELSE categoryFrom(x, categories, i + 1)

category(x, categories) == categoryFrom(x, categories, 1)

\* categories[name]: the tuple stored under a key of the mapping
Lookup(categories, n) ==
    categories[CHOOSE i \in 1..Len(categories) : categories[i].name = n]

prototype(x, categories) ==
    LET c == category(x, categories)
    IN  IF c.kind = "ok" THEN Ok(Lookup(categories, c.val).proto) ELSE c

(* ------------------------------ _distance ------------------------------ *)

\* _distance wrapping only above 180
_distanceAbove(x, y) ==
    LET d == y - x
    IN  IF d > Deg(180) THEN d - Deg(360)
        ELSE IF d < -Deg(180) THEN d + Deg(360)
        ELSE d

\* the scalar branch
_distance(x, y) ==
    LET d == y - x
    IN  IF d >= Deg(180) THEN d - Deg(360)
        ELSE IF d < -Deg(180) THEN d + Deg(360)
        ELSE d

\* the array branch: two masked in-place updates, one after the other
_distanceArray(xs, ys) ==
    LET d  == [i \in 1..Len(xs) |-> ys[i] - xs[i]]
        d1 == [i \in 1..Len(xs) |-> IF d[i] >= Deg(180) THEN d[i] - Deg(360)
                                    ELSE d[i]]
        d2 == [i \in 1..Len(xs) |-> IF d1[i] < -Deg(180) THEN d1[i] + Deg(360)
                                    ELSE d1[i]]
    IN  d2

(* ---------------------------- response_bias ---------------------------- *)

\* an optional argument: None, or a value
None == [given |-> FALSE, val |-> <<>>]

Some(v) == [given |-> TRUE, val |-> v]

\* the first loop of response_bias(): the prototype of every memorandum,
\* looked up once per distinct value (cache) ; a failed lookup propagates
RECURSIVE protosLoop(_, _, _, _, _)
protosLoop(memoranda, categories, i, cache, protos) ==
    IF i > Len(memoranda) THEN Ok(protos)
    ELSE LET memorandum == memoranda[i]
         IN  IF memorandum \in DOMAIN cache
             THEN protosLoop(memoranda, categories, i + 1, cache,
                             Append(protos, cache[memorandum]))
             ELSE LET p == prototype(memorandum, categories)
                  IN  IF p.kind # "ok" THEN p
                      ELSE protosLoop(memoranda, categories, i + 1,
                                      cache @@ (memorandum :> p.val),
                                      Append(protos, p.val))

\* one iteration of the second loop: the sign rule
BiasOf(error, proto_dist) ==
    IF error * proto_dist < 0 THEN -Abs(error) ELSE Abs(error)

\* An argument is a Python number ("scalar"), a Python list ("list"), a
\* Python tuple ("tuple"), a numpy array ("ndarray") or a column of a
\* DataMatrix ("column"), with its items (one for a scalar).  The column is the kind
\* the docstrings ask for; its class belongs to the datamatrix package, and
\* the examples use it as an array: it subtracts elementwise, has a length
\* and can be shuffled.
SeqKinds == {"list", "tuple", "ndarray", "column"}

Obj(kind, items) == [kind |-> kind, items |-> items]

\* y - x in _distance: two numbers subtract, an array or a column subtracts
\* with anything, and a list or a tuple subtracts with nothing but an array
\* or a column
CanSubtract(x, y) ==
    \/ x.kind \in {"ndarray", "column"}
    \/ y.kind \in {"ndarray", "column"}
    \/ (x.kind = "scalar" /\ y.kind = "scalar")

\* the items of an argument in an elementwise operation over n items: a
\* number stands at every item
Spread(x, n) == IF x.kind = "scalar" THEN [i \in 1..n |-> x.items[1]] ELSE x.items

\* _distance(memoranda, responses) as response_bias calls it: the scalar
\* branch for two numbers, the array branch otherwise
errorsOf(memoranda, responses) ==
    IF memoranda.kind = "scalar" /\ responses.kind = "scalar"
    THEN <<_distance(memoranda.items[1], responses.items[1])>>
    ELSE LET n == IF memoranda.kind = "scalar" THEN Len(responses.items)
                  ELSE Len(memoranda.items)
         IN  _distanceArray(Spread(memoranda, n), Spread(responses, n))

\* response_bias(memoranda, responses, categories): the subtraction comes
\* first, then the return without categories, then len(memoranda), which a
\* number does not have, then the two loops.  The distance of two numbers
\* is returned as its one item.
response_bias(memoranda, responses, categories) ==
    IF ~CanSubtract(memoranda, responses) THEN Raise("TypeError")
    ELSE LET errors == errorsOf(memoranda, responses)
         IN  IF ~categories.given THEN Ok(errors)
             ELSE IF memoranda.kind = "scalar" THEN Raise("TypeError")
             ELSE LET protos == protosLoop(memoranda.items, categories.val, 1, <<>>, <<>>)
                  IN  IF protos.kind # "ok" THEN protos
                      ELSE LET proto_dists == _distanceArray(memoranda.items, protos.val)
                           IN  Ok([i \in 1..Len(memoranda.items) |->
                                      BiasOf(errors[i], proto_dists[i])])

(* ------------------------ test_chance_performance ---------------------- *)

\* responses[:]: whether the slice shares the buffer of responses.  It is a
\* new list for a list, the same tuple for a tuple and a view of the same
\* buffer for an array; what it is for a column is decided by the
\* datamatrix package, so either.
SliceSharesBuffer(responses) ==
    IF responses.kind = "list" THEN {FALSE}
    ELSE IF responses.kind \in {"tuple", "ndarray"} THEN {TRUE}
    ELSE BOOLEAN

\* random.shuffle(x) assigns to the items of x whenever x has two items or
\* more, which a tuple does not support
CanShuffle(x) == x.kind # "tuple" \/ Len(x.items) < 2

\* random.shuffle(x): the items in the order of some permutation
Perms(n) == {p \in [1..n -> 1..n] : \A i, j \in 1..n : p[i] = p[j] => i = j}

Shuffled(items, perm) == [i \in 1..Len(items) |-> items[perm[i]]]

AbsAll(d) == [i \in 1..Len(d) |-> Abs(d[i])]

\* test_chance_performance(memoranda, responses), perm being the order the
\* shuffle draws and shared whether the slice shares the buffer; the t-test
\* of scipy over real_errors and fake_errors is left out.  after is what the
\* caller's two arguments hold on return.
test_chance_performance(memoranda, responses, perm, shared) ==
    IF ~CanSubtract(memoranda, responses) THEN Raise("TypeError")
    ELSE IF ~CanShuffle(responses) THEN Raise("TypeError")
    ELSE LET real_errors == AbsAll(_distanceArray(memoranda.items, responses.items))
             shuffled_responses == Shuffled(responses.items, perm)
             fake_errors == AbsAll(_distanceArray(memoranda.items, shuffled_responses))
         IN  Ok([real_errors |-> real_errors,
                 shuffled_responses |-> shuffled_responses,
                 fake_errors |-> fake_errors,
                 after |-> [memoranda |-> memoranda.items,
                            responses |-> IF shared THEN shuffled_responses
                                          ELSE responses.items]])

(* -------------------------- fit_mixture_model -------------------------- *)

STARTING_PRECISION == Whole(500)

STARTING_GUESS_RATE == Tenths(1)

STARTING_BIAS == 0

STARTING_SWAP_RATE == Tenths(1)

BOUNDS_PRECISION == <<0, Whole(10000)>>

BOUNDS_GUESS_RATE == <<0, Whole(1)>>

BOUNDS_BIAS == <<-Deg(180), Deg(180)>>

BOUNDS_SWAP_RATE == <<0, Tenths(5)>>

\* the guess-rate bound of the swap model as wide as the one without swap
BoundsGuessRateWide == <<0, Whole(1)>>

BOUNDS_GUESS_RATE_WITH_SWAP == <<0, Tenths(5)>>

\* the positional parameters, after the data, of the two densities
MixtureParams == <<"precision", "guess_rate", "bias">>

SwapParams == <<"precision", "guess_rate", "swap_rate", "bias">>

\* their default values
DefaultOf(n) ==
    CASE n = "precision"  -> STARTING_PRECISION
      [] n = "guess_rate" -> STARTING_GUESS_RATE
      [] n = "swap_rate"  -> STARTING_SWAP_RATE
      [] n = "bias"       -> STARTING_BIAS

IndexOf(names, n) == CHOOSE i \in 1..Len(names) : names[i] = n

\* f(x, *args): args bound by position, the rest left at their defaults
Bind(names, args) ==
    [n \in {names[i] : i \in 1..Len(names)} |->
        IF IndexOf(names, n) <= Len(args) THEN args[IndexOf(names, n)]
        ELSE DefaultOf(n)]

\* the namespace of the module once imported: every name bound to the
\* value of its assignment
ImportedModule ==
    [STARTING_PRECISION |-> STARTING_PRECISION,
     STARTING_GUESS_RATE |-> STARTING_GUESS_RATE,
     STARTING_BIAS |-> STARTING_BIAS,
     STARTING_SWAP_RATE |-> STARTING_SWAP_RATE,
     BOUNDS_PRECISION |-> BOUNDS_PRECISION,
     BOUNDS_GUESS_RATE |-> BOUNDS_GUESS_RATE,
     BOUNDS_BIAS |-> BOUNDS_BIAS,
     BOUNDS_SWAP_RATE |-> BOUNDS_SWAP_RATE,
     BOUNDS_GUESS_RATE_WITH_SWAP |-> BOUNDS_GUESS_RATE_WITH_SWAP]

\* the default start vector with the bias appended whatever the flag
DefaultX0AlwaysBias(include_bias) ==
    <<module.STARTING_PRECISION, module.STARTING_GUESS_RATE,
      module.STARTING_BIAS>>

\* the start vector and bounds built when the caller passes none: new
\* lists, filled from the names of the module as they are bound at the call
DefaultX0(include_bias) ==
    IF include_bias
    THEN <<module.STARTING_PRECISION, module.STARTING_GUESS_RATE,
           module.STARTING_BIAS>>
    ELSE <<module.STARTING_PRECISION, module.STARTING_GUESS_RATE>>

DefaultBounds(include_bias) ==
    IF include_bias
    THEN <<module.BOUNDS_PRECISION, module.BOUNDS_GUESS_RATE,
           module.BOUNDS_BIAS>>
    ELSE <<module.BOUNDS_PRECISION, module.BOUNDS_GUESS_RATE>>

SwapDefaultX0(include_bias) ==
    IF include_bias
    THEN <<module.STARTING_PRECISION, module.STARTING_GUESS_RATE,
           module.STARTING_SWAP_RATE, module.STARTING_BIAS>>
    ELSE <<module.STARTING_PRECISION, module.STARTING_GUESS_RATE,
           module.STARTING_SWAP_RATE>>

SwapDefaultBounds(include_bias) ==
    IF include_bias
    THEN <<module.BOUNDS_PRECISION, module.BOUNDS_GUESS_RATE_WITH_SWAP,
           module.BOUNDS_SWAP_RATE, module.BOUNDS_BIAS>>
    ELSE <<module.BOUNDS_PRECISION, module.BOUNDS_GUESS_RATE_WITH_SWAP,
           module.BOUNDS_SWAP_RATE>>

\* a fit that keeps the precision it found as the next starting precision
ModuleAfterFitWarmStart(m, fit) ==
    IF fit.kind = "ok" THEN [m EXCEPT !.STARTING_PRECISION = fit.val[1]] ELSE m

\* the namespace after a fit: the fits assign and append to local lists
\* only, and rebind no name of the module
ModuleAfterFit(m, fit) == m

\* a vector of the box the bounds describe
InBox(x, bounds) ==
    /\ Len(x) = Len(bounds)
    /\ \A i \in 1..Len(x) : bounds[i][1] <= x[i] /\ x[i] <= bounds[i][2]

\* optimize.minimize(objective, x0=x0, bounds=bounds), with the objective
\* calling a density of signature names: fit is a result it can give.  The
\* minimizer rejects bounds that do not match x0, fails when the objective
\* cannot take the vector, and otherwise stops at a vector of the box; which
\* one depends on the data, so every vector of the box is a possible result.
minimize(names, x0, bounds, fit) ==
    IF Len(bounds) # Len(x0) THEN fit = Raise("ValueError")
    ELSE IF Len(x0) > Len(names) THEN fit = Raise("TypeError")
    ELSE fit.kind = "ok" /\ InBox(fit.val, bounds)

\* the return statement of _fit_swap_model without the reordering
SwapReturnInternal(include_bias, fit) ==
    IF include_bias
    THEN IF Len(fit.val) < 4 THEN Raise("IndexError") ELSE Ok(fit.val)
    ELSE Ok(fit.val)

\* the return statement of _fit_swap_model
SwapReturn(include_bias, fit) ==
    IF include_bias
    THEN IF Len(fit.val) < 4 THEN Raise("IndexError")
         ELSE Ok(<<fit.val[1], fit.val[2], fit.val[4], fit.val[3]>>)
    ELSE Ok(fit.val)

\* what log(density) can give at the vector x, by the weights of the
\* components: with a negative weight the density is negative at some
\* observations or at none, depending on the data, and the logarithm of a
\* negative density is NaN
LogDensity(names, x) ==
    LET p == Bind(names, x)
        swap_rate == IF "swap_rate" \in DOMAIN p THEN p["swap_rate"] ELSE 0
        weights == {Whole(1) - p["guess_rate"] - swap_rate, swap_rate, p["guess_rate"]}
    IN  IF \E w \in weights : w < 0 THEN {"finite", "nan"} ELSE {"finite"}

\* what the objective of the single-target fit can give at the vector x
MixtureObjective(x) == LogDensity(MixtureParams, x)

\* what the swap objective can give at the vector x: _swap_pdf divides
\* swap_rate * sum(...) by len(x_nontargets).  With no non-target array the
\* divisor is 0: a swap_rate taken from the vector is a numpy float and the
\* quotient is NaN (with a RuntimeWarning), a swap_rate left at its default
\* is a Python float and the division raises.
SwapObjective(x_nontargets, x) ==
    IF Len(x_nontargets) > 0 THEN LogDensity(SwapParams, x)
    ELSE IF Len(x) >= IndexOf(SwapParams, "swap_rate") THEN {"nan"}
    ELSE {"ZeroDivisionError"}

\* the call of minimize a fit makes, and what its objective gives at the
\* vector found ("none" when it was never evaluated)
OptCall(names, x0, bounds, fit, objective) ==
    [names |-> names, x0 |-> x0, bounds |-> bounds, x |-> fit.val,
     objective |-> objective]

NoOpt == OptCall(<<>>, <<>>, <<>>, Ok(<<>>), "none")

(* ------------------------------ _swap_pdf ------------------------------ *)

\* Densities are fractions <<numerator, denominator>> in lowest terms.
RECURSIVE Gcd(_, _)
Gcd(a, b) == IF b = 0 THEN a ELSE Gcd(b, a % b)

Frac(n, d) == LET g == Gcd(Abs(n), d) IN <<n \div g, d \div g>>

FAdd(a, b) == Frac(a[1] * b[2] + b[1] * a[2], a[2] * b[2])

FMul(a, b) == Frac(a[1] * b[1], a[2] * b[2])

FDiv(a, n) == Frac(a[1], a[2] * n)

\* a rate as a fraction of 1
Rate(r) == Frac(r, Whole(1))

\* sum(list), starting from 0
RECURSIVE FSum(_, _)
FSum(list, i) ==
    IF i > Len(list) THEN Frac(0, 1) ELSE FAdd(list[i], FSum(list, i + 1))

\* the return expression with the swap term not divided by the number of
\* non-targets
SwapMixtureUndivided(pdf_vonmises_target, pdf_vonmises_non_targets, pdf_uniform, guess_rate, swap_rate) ==
    FAdd(FAdd(FMul(pdf_vonmises_target,
                   Rate(Whole(1) - guess_rate - swap_rate)),
              FMul(Rate(swap_rate), FSum(pdf_vonmises_non_targets, 1))),
         FMul(pdf_uniform, Rate(guess_rate)))

\* the return expression of _swap_pdf for one observation, from the von
\* Mises density of the target, those of the non-targets and the uniform
\* density, as scipy.stats gives them
SwapMixture(pdf_vonmises_target, pdf_vonmises_non_targets, pdf_uniform, guess_rate, swap_rate) ==
    FAdd(FAdd(FMul(pdf_vonmises_target,
                   Rate(Whole(1) - guess_rate - swap_rate)),
              FDiv(FMul(Rate(swap_rate), FSum(pdf_vonmises_non_targets, 1)),
                   Len(pdf_vonmises_non_targets))),
         FMul(pdf_uniform, Rate(guess_rate)))

(* --------------------------------- aic --------------------------------- *)

\* A float is zero or a power of two, kept as its exponent; a product that
\* falls below the smallest subnormal of its type is zero.
FloatZero == [zero |-> TRUE, e |-> 0]

Float(e) == [zero |-> FALSE, e |-> e]

\* the smallest exponents: of np.longdouble where it is the 80-bit extended
\* type, of np.longdouble where it is the 64-bit double (and of np.float64),
\* and of sys.float_info.min
LONGDOUBLE_MIN_EXP == -16445

DOUBLE_MIN_EXP == -1074

FLOAT_INFO_MIN_EXP == -1022

Dtypes == {"longdouble80", "longdouble64"}

MinExp(dtype) ==
    IF dtype = "longdouble80" THEN LONGDOUBLE_MIN_EXP ELSE DOUBLE_MIN_EXP

Times(a, b, dtype) ==
    IF a.zero \/ b.zero THEN FloatZero
    ELSE IF a.e + b.e < MinExp(dtype) THEN FloatZero
    ELSE Float(a.e + b.e)

\* np.prod(pdf, dtype=dtype): the running product, from 1
RECURSIVE prodFrom(_, _, _, _)
prodFrom(pdf, i, acc, dtype) ==
    IF i > Len(pdf) THEN acc
    ELSE prodFrom(pdf, i + 1, Times(acc, pdf[i], dtype), dtype)

np_prod(pdf, dtype) == prodFrom(pdf, 1, Float(0), dtype)

\* 2 * len(args) - 2 * np.log(prod): finite unless prod is zero; the value
\* is twok - 2 * exp * ln(2)
Score(args, prod) ==
    [finite |-> ~prod.zero, twok |-> 2 * Len(args), exp |-> prod.e]

\* the params bound as the swap density would bind them
AicParamsSwap(args) == Bind(SwapParams, args)

\* mixture_model_pdf(x, *args): the parameters the density is evaluated with
AicParams(args) == Bind(MixtureParams, args)

\* aic without the test of the product
aicUnguarded(args, pdf, dtype) ==
    IF Len(args) > Len(MixtureParams) THEN Raise("TypeError")
    ELSE LET prod == np_prod(pdf, dtype)
         IN  Ok([params |-> AicParams(args), prod |-> prod, warned |-> FALSE,
                 score |-> Score(args, prod)])

\* aic(args, x), with pdf the densities mixture_model_pdf(x, *args) gives
aic(args, pdf, dtype) ==
    IF Len(args) > Len(MixtureParams) THEN Raise("TypeError")
    ELSE LET prod == np_prod(pdf, dtype)
         IN  IF prod.zero
             THEN Ok([params |-> AicParams(args), prod |-> prod, warned |-> TRUE,
                      score |-> Score(args, Float(FLOAT_INFO_MIN_EXP))])
             ELSE Ok([params |-> AicParams(args), prod |-> prod, warned |-> FALSE,
                      score |-> Score(args, prod)])

(* ------------------------------ actions -------------------------------- *)

\* the densities and rates _swap_pdf is evaluated at
Densities == {Frac(0, 1), Frac(1, 2), Frac(2, 1)}

Rates == {0, Tenths(1), Tenths(5)}

\* the densities of the observations handed to aic, and its params
ObsDensities == {FloatZero, Float(-500), Float(-2), Float(0)}

AicArgs ==
    {<<Whole(500), Tenths(1)>>, <<Whole(500), Tenths(1), 0>>,
     <<Whole(500), Tenths(1), Tenths(5)>>,
     <<Whole(500), Tenths(1), 0, Tenths(1)>>}

\* the x0 and bounds a caller passes to fit_mixture_model
X0Args ==
    {None,
     Some(<<Whole(500)>>),
     Some(<<Whole(500), Tenths(2)>>),
     Some(<<Whole(500), Tenths(2), Tenths(25)>>),
     Some(<<Whole(500), Tenths(2), Tenths(25), Tenths(3)>>),
     Some(<<Whole(500), Tenths(2), Tenths(3), Tenths(25)>>),
     Some(<<Whole(500), Tenths(2), Tenths(3), Tenths(25), 0>>)}

BoundsArgs ==
    {None,
     Some(<<BOUNDS_PRECISION>>),
     Some(<<BOUNDS_PRECISION, BOUNDS_GUESS_RATE>>),
     Some(<<BOUNDS_PRECISION, BOUNDS_GUESS_RATE, <<-Deg(90), Deg(90)>> >>),
     Some(<<BOUNDS_PRECISION, BOUNDS_GUESS_RATE, <<-Deg(90), Deg(90)>>, <<0, Tenths(4)>> >>),
     Some(<<BOUNDS_PRECISION, BOUNDS_GUESS_RATE, <<0, Tenths(4)>>, <<-Deg(90), Deg(90)>> >>),
     Some(<<BOUNDS_PRECISION, BOUNDS_GUESS_RATE, <<0, Tenths(4)>>, <<-Deg(90), Deg(90)>>,
            <<0, 0>> >>)}

\* the memoranda and responses of a trial
Memoranda == {0, Deg(10), Deg(120), Deg(350)}

Responses == {Deg(5), -Deg(5), Deg(180), Deg(300)}

Arrays(S) == UNION {[1..n -> S] : n \in 1..MaxTrials}

\* the memoranda and responses handed to test_chance_performance
ChanceMemoranda == {0, Deg(120)}

ChanceResponses == {Deg(5), Deg(180), Deg(300)}

Angles == {Tenths(k) : k \in (-MaxAngle)..MaxAngle}

\* the first arguments tried with _distance
DistanceFrom == {0, Deg(90)}

\* the fits example.py records for fit_mixture_model(sdm.response_bias), a
\* row each, as <<precision, guess_rate, bias>> to the nearest hundredth
RecordedFits ==
    {<<Hundredths(118978), Hundredths(5), Hundredths(142)>>,
     <<Hundredths(43687), 0, Hundredths(567)>>,
     <<Hundredths(65308), 0, Hundredths(117)>>,
     <<Hundredths(92359), Hundredths(1), Hundredths(377)>>,
     <<Hundredths(98124), Hundredths(4), -Hundredths(239)>>,
     <<Hundredths(47091), 0, Hundredths(519)>>,
     <<Hundredths(17219), 0, Hundredths(147)>>,
     <<Hundredths(181888), Hundredths(13), -Hundredths(109)>>,
     <<Hundredths(69773), Hundredths(5), -Hundredths(116)>>,
     <<Hundredths(65160), 0, -Hundredths(22)>>,
     <<Hundredths(39135), 0, Hundredths(632)>>,
     <<Hundredths(64677), 0, Hundredths(514)>>,
     <<Hundredths(100023), 0, -Hundredths(70)>>,
     <<Hundredths(90368), Hundredths(2), Hundredths(265)>>,
     <<Hundredths(21153), 0, Hundredths(1708)>>,
     <<Hundredths(67599), 0, Hundredths(234)>>,
     <<Hundredths(79959), Hundredths(2), Hundredths(72)>>,
     <<Hundredths(124253), 0, Hundredths(186)>>,
     <<Hundredths(50009), Hundredths(4), Hundredths(127)>>,
     <<Hundredths(37951), 0, Hundredths(195)>>}

\* the parameters the recovery tests generate their data from and assert the
\* fit to be near, as <<precision, guess_rate, bias, swap_rate>>
Generating ==
    {<<precision, guess_rate, bias, swap_rate>> :
        precision \in {Whole(500), Whole(2000)},
        guess_rate \in {0, Hundredths(25)},
        bias \in {0, Tenths(25)},
        swap_rate \in {0, Hundredths(25)}}

\* the estimates the repository reports, each parameter under its name
Reported ==
    {[precision |-> r[1], guess_rate |-> r[2], bias |-> r[3],
      swap_rate |-> DefaultOf("swap_rate")] : r \in RecordedFits}
    \cup {[precision |-> g[1], guess_rate |-> g[2], bias |-> g[3],
           swap_rate |-> g[4]] : g \in Generating}

\* the reported estimates as vectors of the first n parameters of names
Estimates(names, n) ==
    IF n > Len(names) THEN {}
    ELSE {[i \in 1..n |-> r[names[i]]] : r \in Reported}

Clip(v, b) == IF v < b[1] THEN b[1] ELSE IF v > b[2] THEN b[2] ELSE v

\* the vectors of coordinates i.. in which every coordinate is at an end of
\* its bounds or at its start (moved into the bounds)
RECURSIVE CornersFrom(_, _, _)
CornersFrom(x0, bounds, i) ==
    IF i > Len(x0) \/ i > Len(bounds) THEN {<<>>}
    ELSE {<<v>> \o t : v \in {bounds[i][1], bounds[i][2], Clip(x0[i], bounds[i])},
                        t \in CornersFrom(x0, bounds, i + 1)}

\* the results of minimize that are followed: its two errors, the reported
\* estimates that lie in the box, and the corners of the box
Fits(names, x0, bounds) ==
    {Raise("ValueError"), Raise("TypeError")}
    \cup {Ok(x) : x \in {e \in Estimates(names, Len(x0)) : InBox(e, bounds)}}
    \cup {Ok(x) : x \in CornersFrom(x0, bounds, 1)}

Init ==
    /\ op = "idle"
    /\ inp = <<>>
    /\ out = Ok(<<>>)
    /\ opt = NoOpt
    /\ module = ImportedModule
    /\ fits = 0

\* the caller takes the result and is ready for its next call
Return ==
    /\ op # "idle"
    /\ op' = "idle"
    /\ inp' = <<>>
    /\ out' = Ok(<<>>)
    /\ opt' = NoOpt
    /\ UNCHANGED <<module, fits>>

CallCategory ==
    /\ op = "idle"
    /\ \E x \in Angles, t \in Tables :
           /\ op' = "category"
           /\ inp' = [x |-> x, categories |-> t]
           /\ out' = category(x, t)
    /\ UNCHANGED <<opt, module, fits>>

CallDistance ==
    /\ op = "idle"
    /\ \E x \in DistanceFrom, y \in Angles :
           /\ op' = "_distance"
           /\ inp' = [x |-> x, y |-> y]
           /\ out' = Ok(_distance(x, y))
    /\ UNCHANGED <<opt, module, fits>>

\* response_bias(memoranda, responses, categories) on sequences of one
\* length and numbers
CallResponseBias ==
    /\ op = "idle"
    /\ \E ms \in Arrays(Memoranda), rs \in Arrays(Responses),
          mk \in SeqKinds \cup {"scalar"}, rk \in SeqKinds \cup {"scalar"},
          categories \in {None} \cup {Some(t) : t \in Tables} :
         /\ mk = "scalar" => Len(ms) = 1
         /\ rk = "scalar" => Len(rs) = 1
         /\ (mk # "scalar" /\ rk # "scalar") => Len(ms) = Len(rs)
         /\ op' = "response_bias"
         /\ inp' = [memoranda |-> Obj(mk, ms), responses |-> Obj(rk, rs),
                    categories |-> categories]
         /\ out' = response_bias(Obj(mk, ms), Obj(rk, rs), categories)
    /\ UNCHANGED <<opt, module, fits>>

\* fit_mixture_model(x, x_nontargets, include_bias, x0, bounds); of the data
\* only the list of non-target arrays is kept, each array as its index (the
\* list may be empty).  The first branch is _fit_swap_model, the second the
\* fit of the single-target model.
CallFitMixtureModel ==
    /\ op = "idle"
    /\ fits < MaxCalls
    /\ fits' = fits + 1
    /\ \E x_nontargets \in {None} \cup {Some([i \in 1..n |-> i]) : n \in 0..MaxNonTargets},
          include_bias \in BOOLEAN, x0 \in X0Args, bounds \in BoundsArgs :
         /\ op' = "fit_mixture_model"
         /\ inp' = [x_nontargets |-> x_nontargets, include_bias |-> include_bias,
                    x0 |-> x0, bounds |-> bounds]
         /\ IF x_nontargets.given
            THEN LET x0v == IF x0.given THEN x0.val
                            ELSE SwapDefaultX0(include_bias)
                     bv  == IF bounds.given THEN bounds.val
                            ELSE SwapDefaultBounds(include_bias)
                 IN  \E fit \in Fits(SwapParams, x0v, bv) :
                        /\ minimize(SwapParams, x0v, bv, fit)
                        /\ \E objective \in IF fit.kind # "ok" THEN {"none"}
                                             ELSE SwapObjective(x_nontargets.val, fit.val) :
                               IF objective = "ZeroDivisionError"
                               THEN /\ opt' = OptCall(SwapParams, x0v, bv,
                                                      Raise(objective), objective)
                                    /\ out' = Raise(objective)
                                    /\ module' = ModuleAfterFit(module, Raise(objective))
                               ELSE /\ opt' = OptCall(SwapParams, x0v, bv, fit,
                                                      objective)
                                    /\ out' = IF fit.kind # "ok" THEN fit
                                              ELSE SwapReturn(include_bias, fit)
                                    /\ module' = ModuleAfterFit(module, fit)
            ELSE LET x0v == IF x0.given THEN x0.val
                            ELSE DefaultX0(include_bias)
                     bv  == IF bounds.given THEN bounds.val
                            ELSE DefaultBounds(include_bias)
                 IN  \E fit \in Fits(MixtureParams, x0v, bv) :
                        /\ minimize(MixtureParams, x0v, bv, fit)
                        /\ \E objective \in IF fit.kind # "ok" THEN {"none"}
                                             ELSE MixtureObjective(fit.val) :
                               opt' = OptCall(MixtureParams, x0v, bv, fit, objective)
                        /\ out' = fit
                        /\ module' = ModuleAfterFit(module, fit)

\* _swap_pdf(x_target, x_nontargets, precision, guess_rate, swap_rate, bias)
\* at one observation
CallSwapPdf ==
    /\ op = "idle"
    /\ \E n \in 1..MaxNonTargets, guess_rate \in Rates, swap_rate \in Rates,
          pdf_vonmises_target \in Densities, pdf_uniform \in Densities :
         \E pdf_vonmises_non_targets \in [1..n -> Densities] :
           /\ op' = "_swap_pdf"
           /\ inp' = [pdf_vonmises_target |-> pdf_vonmises_target,
                      pdf_vonmises_non_targets |-> pdf_vonmises_non_targets,
                      pdf_uniform |-> pdf_uniform,
                      guess_rate |-> guess_rate, swap_rate |-> swap_rate]
           /\ out' = Ok(SwapMixture(pdf_vonmises_target, pdf_vonmises_non_targets,
                                   pdf_uniform, guess_rate, swap_rate))
    /\ UNCHANGED <<opt, module, fits>>

CallAic ==
    /\ op = "idle"
    /\ \E args \in AicArgs, dtype \in Dtypes, n \in 1..MaxObs :
         \E pdf \in [1..n -> ObsDensities] :
           /\ op' = "aic"
           /\ inp' = [args |-> args, pdf |-> pdf, dtype |-> dtype]
           /\ out' = aic(args, pdf, dtype)
    /\ UNCHANGED <<opt, module, fits>>

\* test_chance_performance(memoranda, responses) with memoranda a list or an
\* array and responses a list, a tuple or an array, or on two columns
CallTestChancePerformance ==
    /\ op = "idle"
    /\ \E n \in 1..MaxShuffled, mkind \in SeqKinds \ {"tuple"}, rkind \in SeqKinds :
         \E m \in [1..n -> ChanceMemoranda], r \in [1..n -> ChanceResponses],
            perm \in Perms(n) :
           \E shared \in SliceSharesBuffer(Obj(rkind, r)) :
             /\ (mkind = "column") <=> (rkind = "column")
             /\ op' = "test_chance_performance"
             /\ inp' = [memoranda |-> Obj(mkind, m), responses |-> Obj(rkind, r)]
             /\ out' = test_chance_performance(Obj(mkind, m), Obj(rkind, r), perm, shared)
    /\ UNCHANGED <<opt, module, fits>>

Next ==
    \/ CallCategory
    \/ CallDistance
    \/ CallResponseBias
    \/ CallFitMixtureModel
    \/ CallSwapPdf
    \/ CallAic
    \/ CallTestChancePerformance
    \/ Return

Spec == Init /\ [][Next]_vars

(* ------------------------------ properties ----------------------------- *)

\* v lies in the half-open interval of category c
Holds(c, v) == c.minval <= v /\ v < c.maxval

\* the categories of table t that contain x, x-360 or x+360
MatchSet(x, t) ==
    {i \in 1..Len(t) : \E off \in {0, -Deg(360), Deg(360)} : Holds(t[i], x + off)}

Reverse(t) == [i \in 1..Len(t) |-> t[Len(t) + 1 - i]]

\* C1: category(x, table) returns the name of the first category, in the
\* table's order, whose interval [min, max) contains x, x-360 or x+360, and
\* raises ValueError exactly when no category contains any of the three.
C1_CategoryFirstMatch ==
    op = "category" =>
        LET M == MatchSet(inp.x, inp.categories)
        IN  IF M = {} THEN out = Raise("ValueError")
            ELSE /\ out.kind = "ok"
                 /\ \E i \in M : /\ \A j \in M : i <= j
                                  /\ out.val = inp.categories[i].name

\* a lookup where two categories match and the first one was returned
C1_Witness ==
    /\ op = "category"
    /\ out.kind = "ok"
    /\ \E i, j \in MatchSet(inp.x, inp.categories) :
           /\ i < j
           /\ out.val = inp.categories[i].name
           /\ out.val # inp.categories[j].name

\* C2: with DEFAULT_CATEGORIES every angle in [0, 360) is contained, under
\* the three offsets, in exactly one category; category() does not raise
\* there and returns the same name whatever the iteration order.
C2_DefaultPartition ==
    (op = "category" /\ inp.categories = DEFAULT_CATEGORIES
        /\ 0 <= inp.x /\ inp.x < Deg(360)) =>
        /\ Cardinality(MatchSet(inp.x, DEFAULT_CATEGORIES)) = 1
        /\ out.kind = "ok"
        /\ out = category(inp.x, Reverse(DEFAULT_CATEGORIES))

\* an angle above 341 resolved to red through the x-360 offset
C2_Witness ==
    /\ op = "category"
    /\ inp.categories = DEFAULT_CATEGORIES
    /\ inp.x >= Deg(341) /\ inp.x < Deg(360)
    /\ out = Ok("red")

\* a call of response_bias on two sequences, with categories in which every
\* memorandum has a prototype
BiasCall ==
    /\ op = "response_bias"
    /\ inp.categories.given
    /\ inp.memoranda.kind \in SeqKinds
    /\ inp.responses.kind \in SeqKinds
    /\ \A i \in 1..Len(inp.memoranda.items) :
          prototype(inp.memoranda.items[i], inp.categories.val).kind = "ok"

\* the value of every trial follows the sign rule, and the two examples hold
SignRule ==
    /\ out.kind = "ok"
    /\ Len(out.val) = Len(inp.memoranda.items)
    /\ \A i \in 1..Len(inp.memoranda.items) :
          LET error == _distance(inp.memoranda.items[i], inp.responses.items[i])
              proto == prototype(inp.memoranda.items[i], inp.categories.val).val
              proto_dist == _distance(inp.memoranda.items[i], proto)
          IN  /\ Abs(out.val[i]) = Abs(error)
              /\ (out.val[i] < 0) <=> (error * proto_dist < 0)
    /\ (inp.categories.val = ExampleCategories /\ inp.memoranda.items = <<0>>) =>
          /\ inp.responses.items = <<Deg(5)>> => out.val = <<Deg(5)>>
          /\ inp.responses.items = <<-Deg(5)>> => out.val = <<-Deg(5)>>

\* C3: for every trial, response_bias with categories returns a value with
\* the magnitude of distance(memorandum, response), negative exactly when
\* error * distance(memorandum, prototype) < 0; memorandum 0 with prototype
\* 10: response 5 gives 5 and response -5 gives -5.  The sequences are
\* lists, arrays or columns, as the example response_bias([0], [5],
\* categories) has them.
C3_BiasSignRule == BiasCall => SignRule

\* the distances of a call: the scalar of _distance, or the elements
\* response_bias returns when no categories are passed
DistanceResults ==
    IF op = "_distance" THEN {<<inp.y - inp.x, out.val>>}
    ELSE IF op = "response_bias" /\ ~inp.categories.given /\ out.kind = "ok"
    THEN {<<Spread(inp.responses, Len(out.val))[i]
              - Spread(inp.memoranda, Len(out.val))[i], out.val[i]>> :
             i \in 1..Len(out.val)}
    ELSE {}

\* C4 as stated: _distance(x, y) lies in (-180, 180] for all angles.
C4_Original ==
    \A r \in DistanceResults : -Deg(180) < r[2] /\ r[2] <= Deg(180)

\* C4 amended: when -540 <= y - x < 540, _distance(x, y) is y - x plus a
\* multiple of 360 and lies in [-180, 180).
C4_DistanceRange ==
    \A r \in DistanceResults :
        (-Deg(540) <= r[1] /\ r[1] < Deg(540)) =>
            /\ -Deg(180) <= r[2] /\ r[2] < Deg(180)
            /\ (r[2] - r[1]) % Deg(360) = 0

\* a raw difference of exactly 180 wrapped to -180
C4_Witness ==
    /\ op = "_distance"
    /\ inp.y - inp.x = Deg(180)
    /\ out = Ok(-Deg(180))


\* the order of the returned parameters for each combination of flags
ReturnOrder(swap, include_bias) ==
    IF swap
    THEN IF include_bias THEN <<"precision", "guess_rate", "bias", "swap_rate">>
         ELSE <<"precision", "guess_rate", "swap_rate">>
    ELSE IF include_bias THEN <<"precision", "guess_rate", "bias">>
         ELSE <<"precision", "guess_rate">>

Fitting == op = "fit_mixture_model"

\* C5: with x0 and bounds left at their defaults, fit_mixture_model returns
\* the vector found by the optimizer, every entry of it and nothing else, in
\* the order (precision, guess_rate), (precision, guess_rate, bias),
\* (precision, guess_rate, swap_rate) or, from the internal (precision,
\* guess_rate, swap_rate, bias), (precision, guess_rate, bias, swap_rate).
C5_ReturnOrder ==
    (Fitting /\ ~inp.x0.given /\ ~inp.bounds.given) =>
        LET order == ReturnOrder(inp.x_nontargets.given, inp.include_bias)
            fitted == Bind(opt.names, opt.x)
        IN  /\ out.kind = "ok"
            /\ Len(opt.x) = Len(order)
            /\ out.val = [i \in 1..Len(order) |-> fitted[order[i]]]
            /\ (inp.x_nontargets.given /\ inp.include_bias) =>
                  opt.x = <<fitted["precision"], fitted["guess_rate"],
                            fitted["swap_rate"], fitted["bias"]>>

\* a default fit with non-targets and bias whose last two entries differ and
\* come back exchanged
C5_Witness ==
    /\ Fitting /\ ~inp.x0.given /\ ~inp.bounds.given
    /\ inp.x_nontargets.given /\ inp.include_bias
    /\ out.kind = "ok"
    /\ opt.x[3] # opt.x[4]
    /\ out.val[3] = opt.x[4] /\ out.val[4] = opt.x[3]

\* C6 as stated: every call that returns, also with x0 or bounds passed,
\* returns as many parameters as the flags request: 2, 3, 3 or 4.
C6_Original ==
    (Fitting /\ out.kind = "ok") =>
        Len(out.val) = Len(ReturnOrder(inp.x_nontargets.given, inp.include_bias))

\* C6 amended: a call that returns gives back as many parameters as there
\* are start values: the number the flags request when x0 is left at its
\* default, len(x0) when the caller passes x0.
C6_ReturnLength ==
    (Fitting /\ out.kind = "ok") =>
        Len(out.val) =
            IF inp.x0.given THEN Len(inp.x0.val)
            ELSE Len(ReturnOrder(inp.x_nontargets.given, inp.include_bias))

\* bias requested, a start vector of two passed, two parameters returned
C6_Witness ==
    /\ Fitting /\ out.kind = "ok"
    /\ inp.include_bias /\ ~inp.x_nontargets.given
    /\ inp.x0.given /\ Len(inp.x0.val) = 2
    /\ Len(out.val) = 2

\* C7: in every configuration that fits a bias, the third entry of a
\* caller-supplied x0 is the start value of the bias parameter and the
\* third entry of caller-supplied bounds is its bound.
C7_ThirdEntryIsBias ==
    (Fitting /\ inp.include_bias /\ out.kind = "ok") =>
        /\ (inp.x0.given /\ Len(inp.x0.val) >= 3) =>
              Bind(opt.names, opt.x0)["bias"] = inp.x0.val[3]
        /\ (inp.bounds.given /\ Len(inp.bounds.val) >= 3) =>
              Bind(opt.names, opt.bounds)["bias"] = inp.bounds.val[3]

\* C8: with non-targets and default bounds, the vector the optimizer stops
\* at lies in the default box and has guess_rate + swap_rate <= 1, so the
\* weight 1 - guess_rate - swap_rate of the target component is >= 0.
C8_RatesSumAtMostOne ==
    (Fitting /\ inp.x_nontargets.given /\ ~inp.bounds.given
        /\ out.kind \in {"ok", "IndexError"}) =>
        LET fitted == Bind(opt.names, opt.x)
        IN  /\ fitted["guess_rate"] + fitted["swap_rate"] <= Whole(1)
            /\ Whole(1) - fitted["guess_rate"] - fitted["swap_rate"] >= 0
            /\ \A i \in 1..Len(opt.x) :
                  /\ SwapDefaultBounds(inp.include_bias)[i][1] <= opt.x[i]
                  /\ opt.x[i] <= SwapDefaultBounds(inp.include_bias)[i][2]

\* the corner of the default box where both rates are at their maximum
C8_Witness ==
    /\ Fitting /\ inp.x_nontargets.given /\ ~inp.bounds.given
    /\ out.kind = "ok"
    /\ Bind(opt.names, opt.x)["guess_rate"] = Tenths(5)
    /\ Bind(opt.names, opt.x)["swap_rate"] = Tenths(5)

\* the sum over the non-targets of weight * density, term by term
RECURSIVE WeightedTerms(_, _, _)
WeightedTerms(list, w, i) ==
    IF i > Len(list) THEN Frac(0, 1)
    ELSE FAdd(FMul(w, list[i]), WeightedTerms(list, w, i + 1))

\* C9: for n >= 1 non-targets the swap density is the target term weighted
\* by 1 - guess_rate - swap_rate, plus each non-target term weighted by
\* swap_rate / n, plus the uniform term weighted by guess_rate; the weights
\* sum to 1.
C9_SwapWeights ==
    op = "_swap_pdf" =>
        LET n  == Len(inp.pdf_vonmises_non_targets)
            wt == Frac(Whole(1) - inp.guess_rate - inp.swap_rate, Whole(1))
            wn == Frac(inp.swap_rate, Whole(1) * n)
            wu == Frac(inp.guess_rate, Whole(1))
        IN  /\ out.val = FAdd(FMul(wt, inp.pdf_vonmises_target),
                          FAdd(WeightedTerms(inp.pdf_vonmises_non_targets, wn, 1),
                               FMul(wu, inp.pdf_uniform)))
            /\ FAdd(wt, FAdd(FMul(Frac(n, 1), wn), wu)) = Frac(1, 1)
            /\ (inp.pdf_vonmises_target = Frac(1, 1) /\ inp.pdf_uniform = Frac(1, 1)
                   /\ \A i \in 1..n : inp.pdf_vonmises_non_targets[i] = Frac(1, 1))
                 => out.val = Frac(1, 1)

\* two non-targets with different densities and a positive swap rate
C9_Witness ==
    /\ op = "_swap_pdf"
    /\ Len(inp.pdf_vonmises_non_targets) = 2
    /\ inp.pdf_vonmises_non_targets[1] # inp.pdf_vonmises_non_targets[2]
    /\ inp.swap_rate > 0
    /\ inp.pdf_vonmises_target = Frac(0, 1) /\ inp.pdf_uniform = Frac(0, 1)
    /\ out.val # Frac(0, 1)

\* C10: aic never returns an infinite or NaN score because of underflow:
\* when the product of the densities is exactly zero it warns, takes the
\* smallest positive normal float for the product and returns
\* 2*k - 2*ln(min_float) with k = len(params).
C10_AicUnderflowGuard ==
    (op = "aic" /\ out.kind = "ok") =>
        /\ out.val.score.finite
        /\ out.val.score.twok = 2 * Len(inp.args)
        /\ out.val.warned <=> out.val.prod.zero
        /\ out.val.prod.zero => out.val.score.exp = FLOAT_INFO_MIN_EXP
        /\ ((\E i \in 1..Len(inp.pdf) : inp.pdf[i].zero) => out.val.prod.zero)

\* a product that underflows to zero although no density is zero
C10_Witness ==
    /\ op = "aic" /\ out.kind = "ok"
    /\ \A i \in 1..Len(inp.pdf) : ~inp.pdf[i].zero
    /\ out.val.prod.zero
    /\ out.val.warned
    /\ out.val.score = [finite |-> TRUE, twok |-> 2 * Len(inp.args),
                         exp |-> FLOAT_INFO_MIN_EXP]

\* b holds the items of a in some order
IsPermutation(a, b) ==
    /\ Len(a) = Len(b)
    /\ \E p \in Perms(Len(a)) : b = Shuffled(a, p)

\* C11: test_chance_performance shuffles a copy: on return the caller's
\* responses and memoranda hold the same values in the same order as before,
\* for lists and for numeric arrays, and the null baseline is computed from
\* a permutation of the original responses.
C11_ShufflesACopy ==
    (op = "test_chance_performance" /\ out.kind = "ok") =>
        /\ out.val.after.responses = inp.responses.items
        /\ out.val.after.memoranda = inp.memoranda.items
        /\ IsPermutation(inp.responses.items, out.val.shuffled_responses)
        /\ out.val.fake_errors =
              AbsAll(_distanceArray(inp.memoranda.items, out.val.shuffled_responses))

\* C12: with an empty list of non-target arrays fit_mixture_model fails
\* fast with an invalid-configuration error: it raises before the objective
\* is evaluated, and neither divides by zero nor returns a result computed
\* from NaN densities.
C12_EmptyNonTargetsFailFast ==
    (Fitting /\ inp.x_nontargets.given /\ Len(inp.x_nontargets.val) = 0) =>
        /\ out.kind \notin {"ok", "ZeroDivisionError"}
        /\ opt.objective = "none"

\* the start vector of a call that passes no x0: precision 500, guess rate
\* .1, swap rate .1, bias 0
StartFor(swap, include_bias) ==
    IF swap
    THEN IF include_bias THEN <<Whole(500), Tenths(1), Tenths(1), 0>>
         ELSE <<Whole(500), Tenths(1), Tenths(1)>>
    ELSE IF include_bias THEN <<Whole(500), Tenths(1), 0>>
         ELSE <<Whole(500), Tenths(1)>>

\* the bounds of a call that passes none
BoundsFor(swap, include_bias) ==
    IF swap
    THEN IF include_bias
         THEN << <<0, Whole(10000)>>, <<0, Tenths(5)>>, <<0, Tenths(5)>>, <<-Deg(180), Deg(180)>> >>
         ELSE << <<0, Whole(10000)>>, <<0, Tenths(5)>>, <<0, Tenths(5)>> >>
    ELSE IF include_bias
         THEN << <<0, Whole(10000)>>, <<0, Whole(1)>>, <<-Deg(180), Deg(180)>> >>
         ELSE << <<0, Whole(10000)>>, <<0, Whole(1)>> >>

\* C14: in any sequence of fit_mixture_model calls, a call that passes no x0
\* starts from (500, .1[, .1][, 0]) and one that passes no bounds uses the
\* default bounds of its flags, whatever was called before; the names of the
\* module stay bound to the values of the import.
C14_CallsIndependent ==
    /\ module = ImportedModule
    /\ (Fitting /\ ~inp.x0.given) =>
          opt.x0 = StartFor(inp.x_nontargets.given, inp.include_bias)
    /\ (Fitting /\ ~inp.bounds.given) =>
          opt.bounds = BoundsFor(inp.x_nontargets.given, inp.include_bias)

\* a second fit, after an earlier one, starting from the defaults
C14_Witness ==
    /\ Fitting /\ fits >= 2
    /\ ~inp.x0.given /\ ~inp.bounds.given
    /\ inp.x_nontargets.given /\ inp.include_bias
    /\ out.kind = "ok"
    /\ opt.x0 = <<Whole(500), Tenths(1), Tenths(1), 0>>

\* C15: aic binds params by position to (precision, guess_rate, bias) of
\* the single-target density, whatever model they come from: the third of
\* three params is the bias, also when a swap fit without bias returned it
\* as swap_rate; the penalty is 2 * len(params).
C15_AicBindsPositionally ==
    (op = "aic" /\ out.kind = "ok") =>
        /\ DOMAIN out.val.params = {"precision", "guess_rate", "bias"}
        /\ out.val.params["precision"] = inp.args[1]
        /\ out.val.params["guess_rate"] = inp.args[2]
        /\ out.val.params["bias"] = IF Len(inp.args) >= 3 THEN inp.args[3] ELSE 0
        /\ out.val.score.twok = 2 * Len(inp.args)

\* params that a default swap fit without bias can return, with swap_rate .5
\* last, scored with .5 as the bias and a penalty of 6
C15_Witness ==
    /\ op = "aic" /\ out.kind = "ok"
    /\ inp.args = <<Whole(500), Tenths(1), Tenths(5)>>
    /\ \E fit \in Fits(SwapParams, SwapDefaultX0(FALSE), SwapDefaultBounds(FALSE)) :
          /\ minimize(SwapParams, SwapDefaultX0(FALSE), SwapDefaultBounds(FALSE), fit)
          /\ SwapReturn(FALSE, fit) = Ok(inp.args)
          /\ Bind(SwapParams, fit.val)["swap_rate"] = Tenths(5)
    /\ out.val.params["bias"] = Tenths(5)
    /\ out.val.score.twok = 6

====
